---- MODULE Spec2Model ----
(***************************************************************************)
(* Model of auth_helpers.go: GetAccountId, parseAccountIdFromArn,          *)
(* GetCredentials and setOptionalEndpoint.                                 *)
(*                                                                         *)
(* Strings that the code inspects (ARNs, account ids) are sequences of     *)
(* characters.  Calls into the AWS SDK (IAM, STS, EC2 metadata, the        *)
(* credential chain) are environment steps: each one appends an entry      *)
(* [op, err, out] to the call log `calls` and its outcome is chosen        *)
(* nondeterministically among the outcomes the SDK signature allows.       *)
(***************************************************************************)
EXTENDS Integers, Sequences, FiniteSets

VARIABLES
    fn,                \* the function that was called, "" before any call
    pc,                \* position of the running call
    authProviderName,  \* GetAccountId: argument authProviderName
    c,                 \* GetCredentials: argument c (*Config)
    metadataUrl,       \* process environment: AWS_METADATA_URL
    usedEndpoint,      \* GetCredentials: local usedEndpoint
    providers,         \* GetCredentials: local providers
    calls,             \* log of the SDK operations invoked, with outcomes
    parsed,            \* the ARNs handed to parseAccountIdFromArn
    retId,             \* returned account id (string)
    retChain,          \* returned credential chain: <<>> is nil, <<ps>> a chain over ps
    retErr             \* returned error

vars == <<fn, pc, authProviderName, c, metadataUrl, usedEndpoint, providers,
          calls, parsed, retId, retChain, retErr>>

----------------------------------------------------------------------------
(* Bounds and alphabets *)

MaxArnLen == 6

Colon == ":"

Chars == {Colon, "a", "1"}

ARNs == UNION {[1..n -> Chars] : n \in 0..MaxArnLen}

Accounts == {<<>>, <<"1">>, <<"1", "a">>}

\* iam.ListRolesInput.MaxItems
MaxItems == 1

\* len(parts) < 5
MinArnParts == 5

\* parts[4]
AccountIdIndex == 4

----------------------------------------------------------------------------
(* Errors *)

Nil == [kind |-> "nil", code |-> ""]

\* an error value implementing awserr.Error, with its Code()
AwsErr(code) == [kind |-> "awserr.Error", code |-> code]

\* an error value that is not an awserr.Error; code holds its text
PlainErr(text) == [kind |-> "error", code |-> text]

ErrorCodes == {"AccessDenied", "ValidationError", "Throttling", "NoCredentialProviders"}

SdkErrors == {AwsErr(code) : code \in ErrorCodes} \cup {PlainErr(code) : code \in ErrorCodes}

\* fmt.Errorf / errwrap.Wrapf / multierror: a message kind and what it carries
Errorf(kind, cause) == [kind |-> kind, cause |-> cause]

NoErr == [kind |-> "nil", cause |-> Nil]

----------------------------------------------------------------------------
(* strings.Split(arn, ":") and parseAccountIdFromArn *)

\* strings.Index(s, ":"): 0-based index of the first separator, -1 if none
Index(s) ==
    IF \E i \in 1..Len(s) : s[i] = Colon
    THEN (CHOOSE i \in 1..Len(s) : s[i] = Colon /\ \A j \in 1..(i-1) : s[j] # Colon) - 1
    ELSE -1

RECURSIVE Split(_)
Split(s) ==
    LET m == Index(s)
    IN  IF m < 0 THEN <<s>>
        ELSE <<SubSeq(s, 1, m)>> \o Split(SubSeq(s, m + 2, Len(s)))

parseAccountIdFromArn_WrongField(arn) ==
    LET parts == Split(arn)
    IN  IF Len(parts) < MinArnParts
        THEN [id |-> <<>>, err |-> Errorf("Unable to parse ID from invalid ARN", arn)]
        ELSE [id |-> parts[AccountIdIndex], err |-> NoErr]

parseAccountIdFromArn(arn) ==
    LET parts == Split(arn)
    IN  IF Len(parts) < MinArnParts
        THEN [id |-> <<>>, err |-> Errorf("Unable to parse ID from invalid ARN", arn)]
        ELSE [id |-> parts[AccountIdIndex + 1], err |-> NoErr]

----------------------------------------------------------------------------
(* Call log *)

Call(op, err, out) == [op |-> op, err |-> err, out |-> out]

Ops == {calls[i].op : i \in 1..Len(calls)}

Called(op) == op \in Ops

\* the outcome logged for op (each operation is invoked at most once per call)
CallOf(op) == calls[CHOOSE i \in 1..Len(calls) : calls[i].op = op]

\* return (id, err) from GetAccountId / parseAccountIdFromArn
Return(id, err) ==
    /\ pc' = "done"
    /\ retId' = id
    /\ retErr' = err

\* return parseAccountIdFromArn(arn)
ReturnParse(arn) ==
    /\ parsed' = Append(parsed, arn)
    /\ Return(parseAccountIdFromArn(arn).id, parseAccountIdFromArn(arn).err)


----------------------------------------------------------------------------
(* Inputs *)

\* ec2rolecreds.ProviderName
ec2rolecredsProviderName == "EC2RoleProvider"

ProviderNames == {ec2rolecredsProviderName, "StaticProvider", "AssumeRoleProvider"}

MetadataUrls == {"", "http://localhost:8080/latest"}

RoleArns == {"", "arn:role/A", "arn:role/B"}

\* the fields of Config that GetCredentials branches on; the others
\* (AccessKey, SecretKey, Token, CredsFilename, Profile, Region, MaxRetries,
\* S3ForcePathStyle) are only passed through to the SDK
Configs == [SkipMetadataApiCheck : BOOLEAN, RoleArn : RoleArns]

\* outcomes of an SDK call that yields a value from S or an error
Outcomes(S) ==
    {[err |-> Nil, out |-> v] : v \in S} \cup {[err |-> e, out |-> <<>>] : e \in SdkErrors}

\* setOptionalEndpoint: the endpoint set on cfg, "" when none
setOptionalEndpoint ==
    IF metadataUrl # "" THEN metadataUrl ELSE ""

----------------------------------------------------------------------------
(* Initial state: no call in progress *)

Init ==
    /\ fn = ""
    /\ pc = "idle"
    /\ authProviderName = ""
    /\ c = [SkipMetadataApiCheck |-> FALSE, RoleArn |-> ""]
    /\ metadataUrl \in MetadataUrls
    /\ usedEndpoint = ""
    /\ providers = <<>>
    /\ calls = <<>>
    /\ parsed = <<>>
    /\ retId = <<>>
    /\ retChain = <<>>
    /\ retErr = NoErr

----------------------------------------------------------------------------
(* parseAccountIdFromArn called on its own *)

CallParseAccountIdFromArn ==
    /\ pc = "idle"
    /\ fn' = "parseAccountIdFromArn"
    /\ \E arn \in ARNs : ReturnParse(arn)
    /\ UNCHANGED <<authProviderName, c, metadataUrl, usedEndpoint, providers, calls, retChain>>

----------------------------------------------------------------------------
(* GetAccountId *)

\* entry, and the test authProviderName == ec2rolecreds.ProviderName
CallGetAccountId ==
    /\ pc = "idle"
    /\ fn' = "GetAccountId"
    /\ \E name \in ProviderNames :
          /\ authProviderName' = name
          /\ pc' = IF name = ec2rolecredsProviderName THEN "session.NewSession" ELSE "iam.GetUser"
    /\ UNCHANGED <<c, metadataUrl, usedEndpoint, providers, calls, parsed, retId, retChain, retErr>>

\* cfg := &aws.Config{}; setOptionalEndpoint(cfg); session.NewSession(cfg)
NewSession ==
    /\ pc = "session.NewSession"
    /\ \E o \in Outcomes({<<setOptionalEndpoint>>}) :
          /\ calls' = Append(calls, Call("session.NewSession", o.err, o.out))
          /\ IF o.err # Nil
             THEN Return(<<>>, Errorf("Error creating AWS session", o.err))
             ELSE pc' = "ec2metadata.IAMInfo" /\ UNCHANGED <<retId, retErr>>
    /\ UNCHANGED <<fn, authProviderName, c, metadataUrl, usedEndpoint, providers, parsed, retChain>>

AfterIAMInfo_ErrorFallsBack(o) ==
    IF o.err # Nil
    THEN pc' = "iam.GetUser" /\ UNCHANGED <<parsed, retId, retErr>>
    ELSE ReturnParse(o.out)

\* the error return after IAMInfo, else the parse of info.InstanceProfileArn
AfterIAMInfo(o) ==
    IF o.err # Nil
    THEN Return(<<>>, Errorf("Failed getting EC2 IAM info", o.err)) /\ UNCHANGED parsed
    ELSE ReturnParse(o.out)

\* metadataClient := ec2metadata.New(sess); metadataClient.IAMInfo()
IAMInfo ==
    /\ pc = "ec2metadata.IAMInfo"
    /\ \E o \in Outcomes(ARNs) :
          /\ calls' = Append(calls, Call("ec2metadata.IAMInfo", o.err, o.out))
          /\ AfterIAMInfo(o)
    /\ UNCHANGED <<fn, authProviderName, c, metadataUrl, usedEndpoint, providers, retChain>>

GetUserFallsBack_IgnoresErrorType(err) ==
    err.code = "AccessDenied" \/ err.code = "ValidationError"

\* the negation of the terminal test:
\* !ok || (awsErr.Code() != "AccessDenied" && awsErr.Code() != "ValidationError")
GetUserFallsBack(err) ==
    LET ok == err.kind = "awserr.Error"
    IN  ~(~ok \/ (err.code # "AccessDenied" /\ err.code # "ValidationError"))

AfterGetUser_ParseErrorFallsBack(o) ==
    IF o.err = Nil
    THEN IF parseAccountIdFromArn(o.out).err.kind = "nil"
         THEN ReturnParse(o.out)
         ELSE /\ parsed' = Append(parsed, o.out)
              /\ pc' = "sts.GetCallerIdentity"
              /\ UNCHANGED <<retId, retErr>>
    ELSE /\ UNCHANGED parsed
         /\ IF GetUserFallsBack(o.err)
            THEN pc' = "sts.GetCallerIdentity" /\ UNCHANGED <<retId, retErr>>
            ELSE Return(<<>>, Errorf("Failed getting account ID via 'iam:GetUser'", o.err))

\* the parse of outUser.User.Arn on success, else the classification of err
AfterGetUser(o) ==
    IF o.err = Nil
    THEN ReturnParse(o.out)
    ELSE /\ UNCHANGED parsed
         /\ IF GetUserFallsBack(o.err)
            THEN pc' = "sts.GetCallerIdentity" /\ UNCHANGED <<retId, retErr>>
            ELSE Return(<<>>, Errorf("Failed getting account ID via 'iam:GetUser'", o.err))

\* iamconn.GetUser(nil)
GetUser ==
    /\ pc = "iam.GetUser"
    /\ \E o \in Outcomes(ARNs) :
          /\ calls' = Append(calls, Call("iam.GetUser", o.err, o.out))
          /\ AfterGetUser(o)
    /\ UNCHANGED <<fn, authProviderName, c, metadataUrl, usedEndpoint, providers, retChain>>

AfterGetCallerIdentity_ErrorIsTerminal(o) ==
    IF o.err = Nil
    THEN Return(o.out, NoErr)
    ELSE Return(<<>>, Errorf("Failed getting account ID via 'sts:GetCallerIdentity'", o.err))

AfterGetCallerIdentity_AlwaysListRoles(o) ==
    pc' = "iam.ListRoles" /\ UNCHANGED <<retId, retErr>>

\* if err == nil { return *outCallerIdentity.Account, nil }, else fall through
AfterGetCallerIdentity(o) ==
    IF o.err = Nil
    THEN Return(o.out, NoErr)
    ELSE pc' = "iam.ListRoles" /\ UNCHANGED <<retId, retErr>>

\* stsconn.GetCallerIdentity(&sts.GetCallerIdentityInput{})
GetCallerIdentity ==
    /\ pc = "sts.GetCallerIdentity"
    /\ \E o \in Outcomes(Accounts) :
          /\ calls' = Append(calls, Call("sts.GetCallerIdentity", o.err, o.out))
          /\ AfterGetCallerIdentity(o)
    /\ UNCHANGED <<fn, authProviderName, c, metadataUrl, usedEndpoint, providers, parsed, retChain>>

\* the role lists a ListRoles response can hold under MaxItems
RoleLists == UNION {[1..n -> ARNs] : n \in 0..MaxItems}

\* the two error returns after ListRoles, and the parse of Roles[0].Arn
AfterListRoles(o) ==
    IF o.err # Nil
    THEN Return(<<>>, Errorf("Failed getting account ID via 'iam:ListRoles'", o.err)) /\ UNCHANGED parsed
    ELSE IF Len(o.out) < 1
         THEN Return(<<>>, Errorf("Failed getting account ID via 'iam:ListRoles': No roles available", Nil))
              /\ UNCHANGED parsed
         ELSE ReturnParse(o.out[1])

\* iamconn.ListRoles(&iam.ListRolesInput{MaxItems: 1})
ListRoles ==
    /\ pc = "iam.ListRoles"
    /\ \E o \in Outcomes(RoleLists) :
          /\ calls' = Append(calls, Call("iam.ListRoles", o.err, o.out))
          /\ AfterListRoles(o)
    /\ UNCHANGED <<fn, authProviderName, c, metadataUrl, usedEndpoint, providers, retChain>>

----------------------------------------------------------------------------
(* GetCredentials *)

Provider(name, roleArn) == [name |-> name, RoleARN |-> roleArn]

\* the initial providers slice: static, environment, shared credentials file
BaseProviders ==
    << Provider("StaticProvider", ""),
       Provider("EnvProvider", ""),
       Provider("SharedCredentialsProvider", "") >>

MetadataCheckWanted_Always(cfg) ==
    TRUE

\* if !c.SkipMetadataApiCheck
MetadataCheckWanted(cfg) ==
    ~cfg.SkipMetadataApiCheck

\* entry: build providers, the HTTP client and cfg, read the endpoint override
CallGetCredentials ==
    /\ pc = "idle"
    /\ fn' = "GetCredentials"
    /\ \E cfg \in Configs :
          /\ c' = cfg
          /\ pc' = IF MetadataCheckWanted(cfg) THEN "ec2metadata.Available" ELSE "RoleArn"
    /\ providers' = BaseProviders
    /\ usedEndpoint' = setOptionalEndpoint
    /\ UNCHANGED <<authProviderName, metadataUrl, calls, parsed, retId, retChain, retErr>>

AfterAvailable_AddsUnconditionally(avail) ==
    /\ providers' = Append(providers, Provider(ec2rolecredsProviderName, ""))
    /\ usedEndpoint' = IF ~avail /\ usedEndpoint = "" THEN "default location" ELSE usedEndpoint

\* the two branches on metadataClient.Available()
AfterAvailable(avail) ==
    /\ providers' = IF avail
                    THEN Append(providers, Provider(ec2rolecredsProviderName, ""))
                    ELSE providers
    /\ usedEndpoint' = IF ~avail /\ usedEndpoint = "" THEN "default location" ELSE usedEndpoint

\* metadataClient := ec2metadata.New(session.New(cfg)); metadataClient.Available()
MetadataAvailable ==
    /\ pc = "ec2metadata.Available"
    /\ \E avail \in BOOLEAN :
          /\ calls' = Append(calls, Call("ec2metadata.Available", Nil, <<avail>>))
          /\ AfterAvailable(avail)
    /\ pc' = "RoleArn"
    /\ UNCHANGED <<fn, authProviderName, c, metadataUrl, parsed, retId, retChain, retErr>>

\* the names cp.ProviderName can take: those of the sources in the chain
ChainProviderNames == {<<providers[i].name>> : i \in 1..Len(providers)}

CredentialsError_IgnoresErrorType(err) ==
    IF err.code = "NoCredentialProviders"
    THEN Errorf("No valid credential sources found for AWS Provider", Nil)
    ELSE Errorf("Error loading credentials for AWS Provider", err)

\* the classification of the error of creds.Get(), as the single entry of
\* the returned multierror
CredentialsError(err) ==
    IF err.kind = "awserr.Error" /\ err.code = "NoCredentialProviders"
    THEN Errorf("No valid credential sources found for AWS Provider", Nil)
    ELSE Errorf("Error loading credentials for AWS Provider", err)

AssumeRoleProviders_KeepsBase(roleArn) ==
    Append(providers, Provider("AssumeRoleProvider", roleArn))

\* providers = []awsCredentials.Provider{&stscreds.AssumeRoleProvider{...}}
AssumeRoleProviders(roleArn) ==
    << Provider("AssumeRoleProvider", roleArn) >>

\* if c.RoleArn != ""
RoleArnSet(cfg) ==
    cfg.RoleArn # ""

\* the block under c.RoleArn != "": creds.Get() on the chain built so far,
\* the error return, else sts.New and the replacement of providers
AssumeRole ==
    /\ pc = "RoleArn"
    /\ IF RoleArnSet(c)
       THEN \E o \in Outcomes(ChainProviderNames) :
               IF o.err # Nil
               THEN /\ calls' = Append(calls, Call("creds.Get", o.err, o.out))
                    /\ retChain' = <<>>
                    /\ retErr' = CredentialsError(o.err)
                    /\ pc' = "done"
                    /\ UNCHANGED providers
               ELSE /\ calls' = calls \o << Call("creds.Get", o.err, o.out),
                                            Call("sts.New", Nil, <<>>) >>
                    /\ providers' = AssumeRoleProviders(c.RoleArn)
                    /\ pc' = "NewChainCredentials"
                    /\ UNCHANGED <<retChain, retErr>>
       ELSE /\ pc' = "NewChainCredentials"
            /\ UNCHANGED <<calls, providers, retChain, retErr>>
    /\ UNCHANGED <<fn, authProviderName, c, metadataUrl, usedEndpoint, parsed, retId>>

\* return awsCredentials.NewChainCredentials(providers), nil
ReturnChain ==
    /\ pc = "NewChainCredentials"
    /\ retChain' = <<providers>>
    /\ retErr' = NoErr
    /\ pc' = "done"
    /\ UNCHANGED <<fn, authProviderName, c, metadataUrl, usedEndpoint, providers, calls, parsed, retId>>

----------------------------------------------------------------------------

Next ==
    \/ CallParseAccountIdFromArn
    \/ CallGetAccountId
    \/ NewSession
    \/ IAMInfo
    \/ GetUser
    \/ GetCallerIdentity
    \/ ListRoles
    \/ CallGetCredentials
    \/ MetadataAvailable
    \/ AssumeRole
    \/ ReturnChain

Spec == Init /\ [][Next]_vars

----------------------------------------------------------------------------
(* Properties *)

\* the colon-separated fields of an ARN, described by the positions of the
\* separators rather than by splitting
ColonPositions(arn) == {i \in 1..Len(arn) : arn[i] = Colon}

FieldCount(arn) == Cardinality(ColonPositions(arn)) + 1

\* position of the n-th separator; 0 for n = 0, Len(arn) + 1 when there is none
Separator(arn, n) ==
    IF n = 0 THEN 0
    ELSE IF n > Cardinality(ColonPositions(arn)) THEN Len(arn) + 1
    ELSE CHOOSE i \in ColonPositions(arn) :
            Cardinality({j \in ColonPositions(arn) : j <= i}) = n

\* the n-th field (n = 1 is the first): the text between two separators
Field(arn, n) == SubSeq(arn, Separator(arn, n - 1) + 1, Separator(arn, n) - 1)

ParseErrorKind == "Unable to parse ID from invalid ARN"

IsNoErr(err) == err.kind = "nil"

LastCall == calls[Len(calls)]

RecoverableGetUserErrors == {AwsErr("AccessDenied"), AwsErr("ValidationError")}

\* the names of the sources of the returned chain, in order
ReturnedSources == [i \in 1..Len(retChain[1]) |-> retChain[1][i].name]

\* C1: whenever parseAccountIdFromArn has returned, an ARN with at least
\* 5 colon-separated fields gave exactly its 5th field (possibly empty) and
\* no error; an ARN with fewer fields gave the empty id and the parse error.
C1_ParseReturnsFifthField ==
    (pc = "done" /\ parsed # <<>>) =>
        LET arn == parsed[Len(parsed)]
        IN  IF FieldCount(arn) >= 5
            THEN retId = Field(arn, 5) /\ IsNoErr(retErr)
            ELSE retId = <<>> /\ retErr.kind = ParseErrorKind

C1_Witness ==
    /\ fn = "parseAccountIdFromArn"
    /\ pc = "done"
    /\ FieldCount(parsed[1]) > 5
    /\ retId = <<"a">>
    /\ IsNoErr(retErr)

\* C2: when GetUser failed with AccessDenied or ValidationError and
\* GetCallerIdentity then succeeded, the call has returned exactly the
\* account of GetCallerIdentity with no error and ListRoles was not called.
C2_CallerIdentityAccountReturned ==
    ( /\ Called("iam.GetUser")
      /\ CallOf("iam.GetUser").err \in RecoverableGetUserErrors
      /\ Called("sts.GetCallerIdentity")
      /\ CallOf("sts.GetCallerIdentity").err = Nil )
    => /\ pc = "done"
       /\ retId = CallOf("sts.GetCallerIdentity").out
       /\ IsNoErr(retErr)
       /\ ~Called("iam.ListRoles")
       /\ LastCall.op = "sts.GetCallerIdentity"

C2_Witness ==
    /\ pc = "done"
    /\ Len(calls) = 2
    /\ calls[1] = Call("iam.GetUser", AwsErr("AccessDenied"), <<>>)
    /\ calls[2] = Call("sts.GetCallerIdentity", Nil, <<"1", "a">>)
    /\ retId = <<"1", "a">>

\* C3: a GetUser error other than an AWS error coded AccessDenied or
\* ValidationError ends the call at once with the GetUser error and no
\* other operation is called; GetCallerIdentity is reached only after
\* GetUser failed with one of these two codes.
C3_OtherGetUserErrorsTerminal ==
    /\ ( /\ Called("iam.GetUser")
         /\ CallOf("iam.GetUser").err # Nil
         /\ CallOf("iam.GetUser").err \notin RecoverableGetUserErrors )
       => /\ pc = "done"
          /\ Ops = {"iam.GetUser"}
          /\ retId = <<>>
          /\ retErr.kind = "Failed getting account ID via 'iam:GetUser'"
          /\ retErr.cause = CallOf("iam.GetUser").err
    /\ (pc = "sts.GetCallerIdentity" \/ Called("sts.GetCallerIdentity"))
       => /\ Called("iam.GetUser")
          /\ CallOf("iam.GetUser").err \in RecoverableGetUserErrors

C3_Witness ==
    /\ pc = "done"
    /\ calls = << Call("iam.GetUser", PlainErr("AccessDenied"), <<>>) >>
    /\ retErr.kind = "Failed getting account ID via 'iam:GetUser'"

\* C4: with the instance-metadata provider name only the metadata path
\* runs: a session error, an IAMInfo error and the parse of the instance
\* profile ARN each end the call, and GetUser, GetCallerIdentity and
\* ListRoles are not called; with any other name the metadata service is
\* not queried.
C4_MetadataPathAlone ==
    /\ (fn = "GetAccountId" /\ authProviderName = ec2rolecredsProviderName)
       => /\ pc \in {"session.NewSession", "ec2metadata.IAMInfo", "done"}
          /\ Ops \subseteq {"session.NewSession", "ec2metadata.IAMInfo"}
          /\ (Called("session.NewSession") /\ CallOf("session.NewSession").err # Nil)
             => /\ pc = "done"
                /\ ~Called("ec2metadata.IAMInfo")
                /\ retErr.kind = "Error creating AWS session"
                /\ retErr.cause = CallOf("session.NewSession").err
          /\ (Called("ec2metadata.IAMInfo") /\ CallOf("ec2metadata.IAMInfo").err # Nil)
             => /\ pc = "done"
                /\ retErr.kind = "Failed getting EC2 IAM info"
                /\ retErr.cause = CallOf("ec2metadata.IAMInfo").err
          /\ (Called("ec2metadata.IAMInfo") /\ CallOf("ec2metadata.IAMInfo").err = Nil)
             => /\ pc = "done"
                /\ parsed = <<CallOf("ec2metadata.IAMInfo").out>>
                /\ retErr.kind \in {"nil", ParseErrorKind}
    /\ (fn = "GetAccountId" /\ authProviderName # ec2rolecredsProviderName)
       => /\ ~Called("session.NewSession")
          /\ ~Called("ec2metadata.IAMInfo")
          /\ pc \notin {"session.NewSession", "ec2metadata.IAMInfo"}

C4_Witness ==
    /\ fn = "GetAccountId"
    /\ authProviderName = ec2rolecredsProviderName
    /\ pc = "done"
    /\ Len(calls) = 2
    /\ LastCall = Call("ec2metadata.IAMInfo", AwsErr("Throttling"), <<>>)
    /\ retErr.kind = "Failed getting EC2 IAM info"

\* C5: after a recoverable GetUser failure every GetCallerIdentity failure
\* leads to ListRoles, never to a return; a ListRoles error, and a ListRoles
\* success with no roles, end the call with an error (for the latter the
\* "No roles available" error) and ListRoles is the last operation.
C5_CallerIdentityFailureFallsBack ==
    ( /\ Called("iam.GetUser")
      /\ CallOf("iam.GetUser").err \in RecoverableGetUserErrors
      /\ Called("sts.GetCallerIdentity")
      /\ CallOf("sts.GetCallerIdentity").err # Nil )
    => /\ IF Called("iam.ListRoles") THEN pc = "done" ELSE pc = "iam.ListRoles"
       /\ Called("iam.ListRoles")
          => /\ Len(calls) = 3
             /\ LastCall.op = "iam.ListRoles"
             /\ LastCall.err # Nil
                => /\ retId = <<>>
                   /\ retErr.kind = "Failed getting account ID via 'iam:ListRoles'"
                   /\ retErr.cause = LastCall.err
             /\ (LastCall.err = Nil /\ Len(LastCall.out) = 0)
                => /\ retId = <<>>
                   /\ parsed = <<>>
                   /\ retErr.kind = "Failed getting account ID via 'iam:ListRoles': No roles available"

C5_Witness ==
    /\ pc = "done"
    /\ Len(calls) = 3
    /\ calls[1] = Call("iam.GetUser", AwsErr("AccessDenied"), <<>>)
    /\ calls[2] = Call("sts.GetCallerIdentity", PlainErr("Throttling"), <<>>)
    /\ calls[3] = Call("iam.ListRoles", Nil, <<>>)
    /\ retErr.kind = "Failed getting account ID via 'iam:ListRoles': No roles available"

\* C6: with SkipMetadataApiCheck set and RoleArn empty GetCredentials never
\* probes the metadata service, and the chain it returns holds exactly the
\* static, environment and shared-file sources in that order.
C6_SkipMetadataBaseChain ==
    (fn = "GetCredentials" /\ c.SkipMetadataApiCheck /\ c.RoleArn = "")
    => /\ ~Called("ec2metadata.Available")
       /\ pc # "ec2metadata.Available"
       /\ pc = "done"
          => /\ Len(retChain) = 1
             /\ ReturnedSources = <<"StaticProvider", "EnvProvider", "SharedCredentialsProvider">>

C6_Witness ==
    /\ fn = "GetCredentials"
    /\ c.SkipMetadataApiCheck
    /\ c.RoleArn = ""
    /\ pc = "done"
    /\ calls = <<>>
    /\ Len(retChain[1]) = 3

NoSourcesKind == "No valid credential sources found for AWS Provider"

LoadingKind == "Error loading credentials for AWS Provider"

\* C7: with a RoleArn, when the evaluation of the base chain fails,
\* GetCredentials returns no chain and an error: the "No valid credential
\* sources" error exactly for an AWS error coded NoCredentialProviders,
\* otherwise the "Error loading credentials" error carrying the cause; no
\* STS client and no assumed-role source is built.
C7_ChainFailureClassified ==
    ( /\ fn = "GetCredentials"
      /\ c.RoleArn # ""
      /\ Called("creds.Get")
      /\ CallOf("creds.Get").err # Nil )
    => /\ pc = "done"
       /\ retChain = <<>>
       /\ retErr.kind \in {NoSourcesKind, LoadingKind}
       /\ retErr.kind = NoSourcesKind <=> CallOf("creds.Get").err = AwsErr("NoCredentialProviders")
       /\ retErr.kind = LoadingKind => retErr.cause = CallOf("creds.Get").err
       /\ ~Called("sts.New")
       /\ \A i \in 1..Len(providers) : providers[i].name # "AssumeRoleProvider"

C7_Witness ==
    /\ fn = "GetCredentials"
    /\ pc = "done"
    /\ c.RoleArn # ""
    /\ LastCall = Call("creds.Get", PlainErr("NoCredentialProviders"), <<>>)
    /\ retErr.kind = LoadingKind
    /\ retChain = <<>>

\* C8: with an empty RoleArn GetCredentials evaluates no credential source
\* and returns a nil error; the returned chain is static, environment,
\* shared-file, followed by the instance-metadata source exactly when
\* SkipMetadataApiCheck is false and the availability probe succeeded.
C8_NoRoleNeverFails ==
    (fn = "GetCredentials" /\ c.RoleArn = "")
    => /\ ~Called("creds.Get")
       /\ ~Called("sts.New")
       /\ pc = "done"
          => /\ IsNoErr(retErr)
             /\ Len(retChain) = 1
             /\ ReturnedSources =
                  IF /\ ~c.SkipMetadataApiCheck
                     /\ Called("ec2metadata.Available")
                     /\ CallOf("ec2metadata.Available").out = <<TRUE>>
                  THEN <<"StaticProvider", "EnvProvider", "SharedCredentialsProvider",
                         "EC2RoleProvider">>
                  ELSE <<"StaticProvider", "EnvProvider", "SharedCredentialsProvider">>
             /\ ~c.SkipMetadataApiCheck => Called("ec2metadata.Available")

C8_Witness ==
    /\ fn = "GetCredentials"
    /\ c.RoleArn = ""
    /\ ~c.SkipMetadataApiCheck
    /\ pc = "done"
    /\ calls = << Call("ec2metadata.Available", Nil, <<FALSE>>) >>
    /\ Len(retChain[1]) = 3
    /\ IsNoErr(retErr)

\* C9: with a RoleArn, when the evaluation of the base chain succeeds,
\* GetCredentials returns a nil error and a chain of exactly one source, the
\* assumed-role source bound to the configured RoleArn; once past the RoleArn
\* test the base chain has been evaluated exactly when RoleArn is non-empty.
C9_AssumeRoleReplacesChain ==
    /\ ( /\ fn = "GetCredentials"
         /\ pc = "done"
         /\ Called("creds.Get")
         /\ CallOf("creds.Get").err = Nil )
       => /\ IsNoErr(retErr)
          /\ retChain = << << [name |-> "AssumeRoleProvider", RoleARN |-> c.RoleArn] >> >>
          /\ c.RoleArn # ""
          /\ Called("sts.New")
    /\ (fn = "GetCredentials" /\ pc \in {"NewChainCredentials", "done"})
       => (Called("creds.Get") <=> c.RoleArn # "")

C9_Witness ==
    /\ fn = "GetCredentials"
    /\ pc = "done"
    /\ c.RoleArn = "arn:role/B"
    /\ Len(calls) = 3
    /\ calls[1] = Call("ec2metadata.Available", Nil, <<TRUE>>)
    /\ calls[2] = Call("creds.Get", Nil, <<"EC2RoleProvider">>)
    /\ retChain = << << [name |-> "AssumeRoleProvider", RoleARN |-> "arn:role/B"] >> >>

\* C10: an ARN with fewer than 5 fields returned by GetUser, by IAMInfo or
\* as the first role of ListRoles ends the call with the parse error, and
\* the operation that returned it is the last one called.
C10_ParseErrorTerminal ==
    \A op \in {"iam.GetUser", "ec2metadata.IAMInfo", "iam.ListRoles"} :
        ( /\ Called(op)
          /\ CallOf(op).err = Nil
          /\ op = "iam.ListRoles" => Len(CallOf(op).out) >= 1 )
        => LET arn == IF op = "iam.ListRoles" THEN CallOf(op).out[1] ELSE CallOf(op).out
           IN  /\ pc = "done"
               /\ LastCall.op = op
               /\ ~(op = "iam.GetUser" /\ Called("sts.GetCallerIdentity"))
               /\ ~(op = "iam.GetUser" /\ Called("iam.ListRoles"))
               /\ FieldCount(arn) < 5
                  => /\ retId = <<>>
                     /\ retErr.kind = ParseErrorKind
                     /\ retErr.cause = arn

C10_Witness ==
    /\ pc = "done"
    /\ calls = << Call("iam.GetUser", Nil, <<"a", ":", "1", ":", ":", "1">>) >>
    /\ retErr.kind = ParseErrorKind
    /\ retId = <<>>

=============================================================================
